---- MODULE Spec2Model ----
(***************************************************************************)
(* A model of the BEncode decoder of torrent/src/bencoding.rs.             *)
(*                                                                         *)
(* The decoder is a pure function built from nom 7 parser combinators.     *)
(* Every combinator the source uses is modelled by what it does on a byte  *)
(* slice, including the three ways a nom parser can end: Ok (a value and   *)
(* the unconsumed rest), Err::Error (recoverable: alt and many0 go on) and *)
(* Err::Incomplete (not recoverable: it passes through alt, many0, many1   *)
(* and reaches Finish::finish, which panics on it).  A fourth outcome,     *)
(* Panic, is the arithmetic-overflow abort of a build with overflow        *)
(* checks.                                                                 *)
(*                                                                         *)
(* Bytes are the integers 0..255, a slice is a sequence of bytes.          *)
(***************************************************************************)
EXTENDS Integers, Sequences, FiniteSets, TLC

VARIABLES buf, doc, call, res, remaining, taken

vars == <<buf, doc, call, res, remaining, taken>>

(***************************************************************************)
(* Bounds of the model.                                                    *)
(***************************************************************************)
\* longest raw buffer
MaxLen == 4
\* most nodes (items) of a generated document
MaxNodes == 3
\* width of the length type (u32 in the source), scaled down so that the
\* largest length is written with one digit
U32Bits == 3
\* width of the integer type (usize in the source), scaled down likewise
UsizeBits == 4

RECURSIVE Pow2(_)
Pow2(n) == IF n = 0 THEN 1 ELSE 2 * Pow2(n - 1)

U32_MAX == Pow2(U32Bits) - 1
USIZE_MAX == Pow2(UsizeBits) - 1

(***************************************************************************)
(* BEncoding's marker constants (one byte each).                           *)
(***************************************************************************)
DICT_START == 100
LIST_START == 108
NUMBER_START == 105
END == 101
ARRAY_SEP == 58

\* "\0", the argument of is_not
NUL == 0
\* '0', '+' and '-'
ZERO == 48
PLUS == 43
MINUS == 45

(***************************************************************************)
(* IResult: the outcome of one parser.                                     *)
(***************************************************************************)
Ok(rest, val) == [kind |-> "Ok", rest |-> rest, val |-> val]
Error == [kind |-> "Error", rest |-> <<>>, val |-> <<>>]
Incomplete == [kind |-> "Incomplete", rest |-> <<>>, val |-> <<>>]
Panic == [kind |-> "Panic", rest |-> <<>>, val |-> <<>>]

IsOk(r) == r.kind = "Ok"

Drop(s, n) == SubSeq(s, n + 1, Len(s))
Take(s, n) == SubSeq(s, 1, n)

(***************************************************************************)
(* Item: the four variants of the enum.                                    *)
(***************************************************************************)
ByteArray(bytes) == [t |-> "ByteArray", v |-> bytes]
Integer(n) == [t |-> "Integer", v |-> n]
Dictionary(map) == [t |-> "Dictionary", v |-> map]
List(items) == [t |-> "List", v |-> items]

(***************************************************************************)
(* nom::bytes::complete::tag, for a one-byte tag.                          *)
(***************************************************************************)
tag(t, input) ==
    IF Len(input) >= 1 /\ input[1] = t
    THEN Ok(Drop(input, 1), <<t>>)
    ELSE Error

(***************************************************************************)
(* nom::bytes::complete::take_until, for a one-byte pattern: everything    *)
(* before the first occurrence, which is left in the rest; Error when the  *)
(* pattern does not occur.                                                 *)
(***************************************************************************)
take_until(t, input) ==
    LET hits == {i \in 1..Len(input) : input[i] = t}
    IN  IF hits = {}
        THEN Error
        ELSE LET p == CHOOSE i \in hits : \A j \in hits : i <= j
             IN  Ok(Drop(input, p - 1), Take(input, p - 1))

(***************************************************************************)
(* nom::bytes::complete::is_not, for a one-byte set: the longest prefix    *)
(* free of the byte, which must not be empty.                              *)
(***************************************************************************)
is_not(t, input) ==
    LET hits == {i \in 1..Len(input) : input[i] = t}
        p == IF hits = {}
             THEN Len(input) + 1
             ELSE CHOOSE i \in hits : \A j \in hits : i <= j
    IN  IF p = 1
        THEN Error
        ELSE Ok(Drop(input, p - 1), Take(input, p - 1))

(***************************************************************************)
(* std::str::from_utf8, as a validity test (the bytes are kept as they     *)
(* are).  Well-formed sequences of Unicode table 3-7.                      *)
(***************************************************************************)
IsCont(b) == b >= 128 /\ b <= 191

RECURSIVE from_utf8(_)
from_utf8(s) ==
    IF s = <<>> THEN TRUE
    ELSE LET b == s[1]
             n == Len(s)
         IN  IF b <= 127 THEN from_utf8(Drop(s, 1))
             ELSE IF b >= 194 /\ b <= 223
             THEN n >= 2 /\ IsCont(s[2]) /\ from_utf8(Drop(s, 2))
             ELSE IF b >= 224 /\ b <= 239
             THEN /\ n >= 3
                  /\ IsCont(s[2])
                  /\ IsCont(s[3])
                  /\ (b = 224 => s[2] >= 160)
                  /\ (b = 237 => s[2] <= 159)
                  /\ from_utf8(Drop(s, 3))
             ELSE IF b >= 240 /\ b <= 244
             THEN /\ n >= 4
                  /\ IsCont(s[2])
                  /\ IsCont(s[3])
                  /\ IsCont(s[4])
                  /\ (b = 240 => s[2] >= 144)
                  /\ (b = 244 => s[2] <= 143)
                  /\ from_utf8(Drop(s, 4))
             ELSE FALSE

IsDigit(b) == b >= ZERO /\ b <= ZERO + 9

(***************************************************************************)
(* <usize as FromStr>::from_str: an optional '+', then one or more decimal *)
(* digits; no '-' for an unsigned type; an error when the value does not   *)
(* fit.  -1 stands for Err.                                                *)
(***************************************************************************)
RECURSIVE from_str_digits(_, _)
from_str_digits(s, acc) ==
    IF s = <<>> THEN acc
    ELSE IF ~IsDigit(s[1]) THEN -1
    ELSE IF acc * 10 + (s[1] - ZERO) > USIZE_MAX THEN -1
    ELSE from_str_digits(Drop(s, 1), acc * 10 + (s[1] - ZERO))

from_str(s) ==
    IF s = <<>> THEN -1
    ELSE IF (s[1] = PLUS \/ s[1] = MINUS) /\ Len(s) = 1 THEN -1
    ELSE IF s[1] = PLUS THEN from_str_digits(Drop(s, 1), 0)
    ELSE from_str_digits(s, 0)

(***************************************************************************)
(* nom::character::complete::u32: a maximal run of decimal digits, at      *)
(* least one, whose value fits the type.                                   *)
(***************************************************************************)
RECURSIVE u32_loop(_, _, _)
u32_loop(input, pos, value) ==
    IF pos > Len(input) THEN Ok(<<>>, value)
    ELSE IF ~IsDigit(input[pos])
    THEN IF pos = 1 THEN Error ELSE Ok(Drop(input, pos - 1), value)
    ELSE IF value * 10 + (input[pos] - ZERO) > U32_MAX THEN Error
    ELSE u32_loop(input, pos + 1, value * 10 + (input[pos] - ZERO))

u32(input) == IF input = <<>> THEN Error ELSE u32_loop(input, 1, 0)

(***************************************************************************)
(* parse_integer: i<number>e                                               *)
(***************************************************************************)
parse_integer(input) ==
    LET a == tag(NUMBER_START, input)
        b == take_until(END, a.rest)
        c == tag(END, b.rest)
        n == from_str(b.val)
    IN  IF ~IsOk(a) THEN Error
        ELSE IF ~IsOk(b) THEN Error
        ELSE IF ~IsOk(c) THEN Error
        ELSE IF ~from_utf8(b.val) THEN Error
        ELSE IF n = -1 THEN Error
        ELSE Ok(c.rest, n)

(***************************************************************************)
(* The closure of parse_bytearray: |x| if x > 0 { x + 1 } else { 0 }, in   *)
(* u32 arithmetic.  x + 1 overflows for x = u32::MAX: a panic in a build   *)
(* with overflow checks (oc), a wrap to 0 in one without.  -1 stands for   *)
(* the panic.                                                              *)
(***************************************************************************)
length_of(x, oc) ==
    IF x > 0
    THEN IF x + 1 > U32_MAX
         THEN IF oc THEN -1 ELSE (x + 1) % (U32_MAX + 1)
         ELSE x + 1
    ELSE 0

(***************************************************************************)
(* parse_bytearray: <length>:<data>, as                                    *)
(*   length_value(map(u32, closure), preceded(tag(":"), is_not("\0")))     *)
(* length_value takes `length` bytes and runs the inner parser on them;    *)
(* what the inner parser leaves of them is dropped.  Fewer than `length`   *)
(* bytes left is Err::Incomplete.                                          *)
(***************************************************************************)
parse_bytearray(input, oc) ==
    LET n == u32(input)
        length == length_of(n.val, oc)
        i == Take(n.rest, length)
        rest == Drop(n.rest, length)
        sep == tag(ARRAY_SEP, i)
        data == is_not(NUL, sep.rest)
    IN  IF ~IsOk(n) THEN Error
        ELSE IF length = -1 THEN Panic
        ELSE IF length > Len(n.rest) THEN Incomplete
        ELSE IF ~IsOk(sep) THEN Error
        ELSE IF ~IsOk(data) THEN Error
        ELSE Ok(rest, data.val)

\* a map that keeps the value it already holds under a key
insert_keeps_first(map, key, value) ==
    [k \in (DOMAIN map) \cup {key} |-> IF k \in DOMAIN map THEN map[k] ELSE value]

(***************************************************************************)
(* HashMap::insert, as the FromIterator of HashMap uses it: a later value  *)
(* replaces an earlier one under the same key.                             *)
(***************************************************************************)
insert(map, key, value) ==
    [k \in (DOMAIN map) \cup {key} |-> IF k = key THEN value ELSE map[k]]

EmptyMap == [k \in {} |-> 0]

(***************************************************************************)
(* The closure of parse_dictionary: the pairs in order, each key through   *)
(* from_utf8, collected into Result<HashMap, Utf8Error>.  [ok, map].       *)
(***************************************************************************)
RECURSIVE collect(_, _, _)
collect(pairs, i, map) ==
    IF i > Len(pairs) THEN [ok |-> TRUE, map |-> map]
    ELSE IF ~from_utf8(pairs[i][1]) THEN [ok |-> FALSE, map |-> EmptyMap]
    ELSE collect(pairs, i + 1, insert(map, pairs[i][1], pairs[i][2]))

RECURSIVE parse_item(_, _)
RECURSIVE many0_item(_, _)
RECURSIVE many0_pair(_, _)

(***************************************************************************)
(* many0(parse_item): items until parse_item gives Err::Error; any other   *)
(* Err ends the whole parser with it.                                      *)
(***************************************************************************)
many0_item(input, oc) ==
    LET more(r) ==
            LET push(m) == IF IsOk(m) THEN Ok(m.rest, <<r.val>> \o m.val) ELSE m
            IN  push(many0_item(r.rest, oc))
        first(r) ==
            IF r.kind = "Error" THEN Ok(input, <<>>)
            ELSE IF ~IsOk(r) THEN r
            ELSE IF Len(r.rest) = Len(input) THEN Error
            ELSE more(r)
    IN  first(parse_item(input, oc))

(***************************************************************************)
(* pair(parse_bytearray, parse_item)                                       *)
(***************************************************************************)
pair(input, oc) ==
    LET value(k) ==
            LET both(v) == IF IsOk(v) THEN Ok(v.rest, <<k.val, v.val>>) ELSE v
            IN  both(parse_item(k.rest, oc))
        key(k) == IF IsOk(k) THEN value(k) ELSE k
    IN  key(parse_bytearray(input, oc))

many0_pair(input, oc) ==
    LET more(r) ==
            LET push(m) == IF IsOk(m) THEN Ok(m.rest, <<r.val>> \o m.val) ELSE m
            IN  push(many0_pair(r.rest, oc))
        first(r) ==
            IF r.kind = "Error" THEN Ok(input, <<>>)
            ELSE IF ~IsOk(r) THEN r
            ELSE IF Len(r.rest) = Len(input) THEN Error
            ELSE more(r)
    IN  first(pair(input, oc))

\* a composite that checks its end marker and leaves it in the input
terminated_leaves_end(b) ==
    IF ~IsOk(b) THEN b
    ELSE IF ~IsOk(tag(END, b.rest)) THEN Error
    ELSE Ok(b.rest, b.val)

(***************************************************************************)
(* delimited(tag(start), body, tag(END)), given the outcome of the body on *)
(* what follows the start tag.                                             *)
(***************************************************************************)
terminated(b) ==
    IF ~IsOk(b) THEN b
    ELSE IF ~IsOk(tag(END, b.rest)) THEN Error
    ELSE Ok(Drop(b.rest, 1), b.val)

(***************************************************************************)
(* parse_list: l<element>*e                                                *)
(***************************************************************************)
parse_list(input, oc) ==
    IF ~IsOk(tag(LIST_START, input)) THEN Error
    ELSE terminated(many0_item(Drop(input, 1), oc))

(***************************************************************************)
(* parse_dictionary: d(<element key><element value>)*e                     *)
(***************************************************************************)
parse_dictionary(input, oc) ==
    LET to_map(p) ==
            LET result(m) == IF m.ok THEN Ok(p.rest, m.map) ELSE Error
            IN  IF IsOk(p) THEN result(collect(p.val, 1, EmptyMap)) ELSE p
    IN  IF ~IsOk(tag(DICT_START, input)) THEN Error
        ELSE to_map(terminated(many0_pair(Drop(input, 1), oc)))

(***************************************************************************)
(* parse_item: alt over the four productions, in the source's order.  alt  *)
(* goes on to the next parser on Err::Error only.                          *)
(***************************************************************************)
parse_item(input, oc) ==
    LET alt4(b) == IF IsOk(b) THEN Ok(b.rest, ByteArray(b.val)) ELSE b
        alt3(d) ==
            IF IsOk(d) THEN Ok(d.rest, Dictionary(d.val))
            ELSE IF d.kind # "Error" THEN d
            ELSE alt4(parse_bytearray(input, oc))
        alt2(l) ==
            IF IsOk(l) THEN Ok(l.rest, List(l.val))
            ELSE IF l.kind # "Error" THEN l
            ELSE alt3(parse_dictionary(input, oc))
        alt1(n) ==
            IF IsOk(n) THEN Ok(n.rest, Integer(n.val))
            ELSE alt2(parse_list(input, oc))
    IN  alt1(parse_integer(input))

(***************************************************************************)
(* many1(parse_item): at least one item, then as many0.                    *)
(***************************************************************************)
many1_item(input, oc) ==
    LET more(r) ==
            LET push(m) == IF IsOk(m) THEN Ok(m.rest, <<r.val>> \o m.val) ELSE m
            IN  push(many0_item(r.rest, oc))
        first(r) == IF IsOk(r) THEN more(r) ELSE r
    IN  first(parse_item(input, oc))

(***************************************************************************)
(* parse_bytes: many1(parse_item)(input).finish(), the remaining input     *)
(* dropped.  Finish::finish panics on Err::Incomplete.                     *)
(***************************************************************************)
finish(r) ==
    IF IsOk(r) THEN [kind |-> "Ok", val |-> r.val, remaining |-> r.rest]
    ELSE IF r.kind = "Error" THEN [kind |-> "Err", val |-> <<>>, remaining |-> <<>>]
    ELSE [kind |-> "Panic", val |-> <<>>, remaining |-> <<>>]

parse_bytes(input, oc) == finish(many1_item(input, oc))

(***************************************************************************)
(* BEncoding::decode: Some(items), None, or the panic passing through.     *)
(* The remaining field is the _remaining binding of parse_bytes, which the *)
(* caller never sees.                                                      *)
(***************************************************************************)
option(r) ==
    IF r.kind = "Ok" THEN [kind |-> "Some", val |-> r.val, remaining |-> r.remaining]
    ELSE IF r.kind = "Err" THEN [kind |-> "None", val |-> <<>>, remaining |-> <<>>]
    ELSE r

decode(bytes, oc) == option(parse_bytes(bytes, oc))

(***************************************************************************)
(* The wire format, written out: the bytes of a document.  A document on   *)
(* the wire is a tree like an Item, except that a dictionary is the        *)
(* sequence of its pairs as written (Pairs), each a <<key, value>> of two  *)
(* trees: a key that is not a byte string, and a key repeated, can be      *)
(* written, and the decoder has to deal with both.                         *)
(***************************************************************************)
Pairs(pairs) == [t |-> "Pairs", v |-> pairs]

RECURSIVE Dec(_)
Dec(n) == IF n < 10 THEN <<ZERO + n>> ELSE Dec(n \div 10) \o <<ZERO + (n % 10)>>

RECURSIVE Encode(_)
RECURSIVE EncodeAll(_)
RECURSIVE EncodePairs(_)
Encode(tree) ==
    IF tree.t = "Integer" THEN <<NUMBER_START>> \o Dec(tree.v) \o <<END>>
    ELSE IF tree.t = "ByteArray" THEN Dec(Len(tree.v)) \o <<ARRAY_SEP>> \o tree.v
    ELSE IF tree.t = "List" THEN <<LIST_START>> \o EncodeAll(tree.v) \o <<END>>
    ELSE <<DICT_START>> \o EncodePairs(tree.v) \o <<END>>

EncodeAll(trees) ==
    IF trees = <<>> THEN <<>>
    ELSE Encode(Head(trees)) \o EncodeAll(Tail(trees))

EncodePairs(pairs) ==
    IF pairs = <<>> THEN <<>>
    ELSE Encode(Head(pairs)[1]) \o Encode(Head(pairs)[2]) \o EncodePairs(Tail(pairs))

(***************************************************************************)
(* The Item a written tree stands for (data model: a dictionary maps each  *)
(* key to a value; of a repeated key the last pair is the one kept, which  *)
(* is what HashMap's FromIterator documents).                              *)
(***************************************************************************)
KeysOf(pairs) == {pairs[i][1].v : i \in 1..Len(pairs)}

LastIndex(pairs, k) ==
    CHOOSE i \in 1..Len(pairs) :
        /\ pairs[i][1].v = k
        /\ \A j \in 1..Len(pairs) : pairs[j][1].v = k => j <= i

RECURSIVE Expected(_)
Expected(tree) ==
    IF tree.t = "List"
    THEN List([i \in 1..Len(tree.v) |-> Expected(tree.v[i])])
    ELSE IF tree.t = "Pairs"
    THEN Dictionary([k \in KeysOf(tree.v) |->
                        Expected(tree.v[LastIndex(tree.v, k)][2])])
    ELSE tree

ExpectedAll(trees) == [i \in 1..Len(trees) |-> Expected(trees[i])]

(***************************************************************************)
(* Generated documents: every forest of up to MaxNodes items, over two     *)
(* leaves and five keys (two texts, a byte that is no UTF-8, an integer    *)
(* and a list in key position).                                            *)
(***************************************************************************)
Leaves == {Integer(1), ByteArray(<<END>>)}

DocKeys ==
    {ByteArray(<<97>>), ByteArray(<<98>>), ByteArray(<<255>>), Integer(1), List(<<>>)}

RECURSIVE Trees(_)
RECURSIVE Forests(_)
RECURSIVE PairSeqs(_)
Trees(n) ==
    IF n = 1
    THEN Leaves \cup {List(<<>>), Pairs(<<>>)}
    ELSE {List(f) : f \in Forests(n - 1)} \cup {Pairs(p) : p \in PairSeqs(n - 1)}

Forests(n) ==
    IF n = 0
    THEN {<<>>}
    ELSE UNION {{<<x[1]>> \o x[2] : x \in Trees(k) \X Forests(n - k)} : k \in 1..n}

PairSeqs(n) ==
    IF n = 0
    THEN {<<>>}
    ELSE UNION {{<< <<x[1], x[2]>> >> \o x[3] :
                    x \in DocKeys \X Trees(k) \X PairSeqs(n - k)} : k \in 1..n}

\* every key of every dictionary is a byte string
RECURSIVE KeysAreByteStrings(_)
KeysAreByteStrings(tree) ==
    IF tree.t = "List"
    THEN \A i \in 1..Len(tree.v) : KeysAreByteStrings(tree.v[i])
    ELSE IF tree.t = "Pairs"
    THEN \A i \in 1..Len(tree.v) :
            /\ tree.v[i][1].t = "ByteArray"
            /\ KeysAreByteStrings(tree.v[i][2])
    ELSE TRUE

\* ... and text: of the generated keys, those of bytes below 128
RECURSIVE KeysAreText(_)
KeysAreText(tree) ==
    IF tree.t = "List"
    THEN \A i \in 1..Len(tree.v) : KeysAreText(tree.v[i])
    ELSE IF tree.t = "Pairs"
    THEN \A i \in 1..Len(tree.v) :
            /\ tree.v[i][1].t = "ByteArray"
            /\ \A j \in 1..Len(tree.v[i][1].v) : tree.v[i][1].v[j] < 128
            /\ KeysAreText(tree.v[i][2])
    ELSE TRUE

\* no dictionary writes a key twice
RECURSIVE KeysAreDistinct(_)
KeysAreDistinct(tree) ==
    IF tree.t = "List"
    THEN \A i \in 1..Len(tree.v) : KeysAreDistinct(tree.v[i])
    ELSE IF tree.t = "Pairs"
    THEN /\ \A i, j \in 1..Len(tree.v) : tree.v[i][1] = tree.v[j][1] => i = j
         /\ \A i \in 1..Len(tree.v) : KeysAreDistinct(tree.v[i][2])
    ELSE TRUE

(***************************************************************************)
(* Inputs.  Raw buffers: every byte sequence up to MaxLen over the bytes   *)
(* the grammar tells apart.  Document buffers: a generated document as     *)
(* written, followed by a tail or with its last bytes cut off.  doc keeps  *)
(* how the buffer was made; the decoder never reads it.                    *)
(***************************************************************************)
Alphabet ==
    {NUL, PLUS, MINUS, ZERO, ZERO + 2, ZERO + 7, ARRAY_SEP, 97,
     DICT_START, END, NUMBER_START, LIST_START, 255}

RawInputs == UNION {[1..n -> Alphabet] : n \in 0..MaxLen}

Tails == {<<>>, <<END>>, <<97>>}

\* most bytes cut off the end of a document
MaxCut == 2

NoRes == [kind |-> "NotCalled", rest |-> <<>>, val |-> <<>>]

Init ==
    /\ buf \in RawInputs
    /\ doc = [items |-> <<>>, cut |-> 0, tail |-> buf]
    /\ call = "none"
    /\ res = NoRes
    /\ remaining = <<>>
    /\ taken = -1

InitDoc ==
    /\ \E n \in 1..MaxNodes : \E items \in Forests(n) :
          \/ \E tail \in Tails :
                /\ doc = [items |-> items, cut |-> 0, tail |-> tail]
                /\ buf = EncodeAll(items) \o tail
          \/ \E cut \in 1..MaxCut :
                /\ cut < Len(Encode(items[Len(items)]))
                /\ doc = [items |-> items, cut |-> cut, tail |-> <<>>]
                /\ buf = Take(EncodeAll(items), Len(EncodeAll(items)) - cut)
    /\ call = "none"
    /\ res = NoRes
    /\ remaining = <<>>
    /\ taken = -1

(***************************************************************************)
(* The entry points.  A call is one step; the decoder keeps no state       *)
(* between calls, so one call per buffer is all there is to see.  The      *)
(* build's overflow checks (oc) are either on or off.                      *)
(***************************************************************************)
Decode ==
    /\ call = "none"
    /\ \E oc \in BOOLEAN :
          LET r == decode(buf, oc)
          IN  /\ res' = [kind |-> r.kind, rest |-> <<>>, val |-> r.val]
              /\ remaining' = r.remaining
    /\ call' = "decode"
    /\ UNCHANGED <<buf, doc, taken>>

\* decode_str: the bytes of a &str, which are valid UTF-8
DecodeStr ==
    /\ call = "none"
    /\ from_utf8(buf)
    /\ \E oc \in BOOLEAN :
          LET r == decode(buf, oc)
          IN  /\ res' = [kind |-> r.kind, rest |-> <<>>, val |-> r.val]
              /\ remaining' = r.remaining
    /\ call' = "decode_str"
    /\ UNCHANGED <<buf, doc, taken>>

ParseInteger ==
    /\ call = "none"
    /\ res' = parse_integer(buf)
    /\ call' = "parse_integer"
    /\ UNCHANGED <<buf, doc, remaining, taken>>

\* taken: the number of bytes to take after the digits, as the closure
\* computed it (-1: none, the digits did not parse or the addition panicked)
ParseBytearray ==
    /\ call = "none"
    /\ \E oc \in BOOLEAN :
          /\ res' = parse_bytearray(buf, oc)
          /\ taken' = IF IsOk(u32(buf)) THEN length_of(u32(buf).val, oc) ELSE -1
    /\ call' = "parse_bytearray"
    /\ UNCHANGED <<buf, doc, remaining>>

ParseList ==
    /\ call = "none"
    /\ \E oc \in BOOLEAN : res' = parse_list(buf, oc)
    /\ call' = "parse_list"
    /\ UNCHANGED <<buf, doc, remaining, taken>>

ParseDictionary ==
    /\ call = "none"
    /\ \E oc \in BOOLEAN : res' = parse_dictionary(buf, oc)
    /\ call' = "parse_dictionary"
    /\ UNCHANGED <<buf, doc, remaining, taken>>

Next ==
    \/ Decode
    \/ DecodeStr
    \/ ParseInteger
    \/ ParseBytearray
    \/ ParseList
    \/ ParseDictionary

Spec == Init /\ [][Next]_vars

SpecDoc == InitDoc /\ [][Next]_vars

(***************************************************************************)
(* The claims.                                                             *)
(***************************************************************************)
Decoding == call \in {"decode", "decode_str"}

IsSuffix(s, b) == Len(s) <= Len(b) /\ s = Drop(b, Len(b) - Len(s))

\* the first item of the document is whole in the buffer, and what follows
\* it there
FirstIsWhole == Len(doc.items) > 1 \/ doc.cut = 0
AfterFirst == Drop(buf, Len(Encode(doc.items[1])))

\* C1: decode of any buffer ends with a document or with the absent result,
\* never with a panic, and never takes more bytes than the buffer holds.
C1_DecodeIsTotal ==
    Decoding => res.kind \in {"Some", "None"} /\ IsSuffix(remaining, buf)

\* C2: when decode returns a document, its items account for every byte of
\* the buffer: nothing is left over behind the last item.
C2_DocumentCoversBuffer ==
    Decoding /\ res.kind = "Some" => remaining = <<>>

\* C3: for a declared length L >= 1 followed by the separator and at least L
\* bytes of any value, parse_bytearray yields exactly those L bytes and
\* leaves exactly what follows them.
C3_PayloadIsExact ==
    call = "parse_bytearray" =>
        \A L \in 1..U32_MAX :
            LET h == Dec(L) \o <<ARRAY_SEP>>
            IN  Len(buf) >= Len(h) + L /\ Take(buf, Len(h)) = h =>
                    /\ IsOk(res)
                    /\ res.val = SubSeq(buf, Len(h) + 1, Len(h) + L)
                    /\ res.rest = Drop(buf, Len(h) + L)

\* C4: "0:" parses to the empty byte string, the digit and the separator
\* consumed and nothing else; "l0:e" decodes to a list of one empty byte
\* string; "0" without the separator fails.
C4_ZeroLengthAccepted ==
    /\ call = "parse_bytearray" /\ Len(buf) >= 2
            /\ buf[1] = ZERO /\ buf[2] = ARRAY_SEP =>
          IsOk(res) /\ res.val = <<>> /\ res.rest = Drop(buf, 2)
    /\ call = "parse_bytearray" /\ Len(buf) >= 1 /\ buf[1] = ZERO
            /\ (Len(buf) = 1 \/ (buf[2] # ARRAY_SEP /\ ~IsDigit(buf[2]))) =>
          ~IsOk(res)
    /\ Decoding /\ buf = <<LIST_START, ZERO, ARRAY_SEP, END>> =>
          res.kind = "Some" /\ res.val = <<List(<<ByteArray(<<>>)>>)>>

\* C5: a buffer that ends inside the last item of a well-formed document
\* (inside a byte string's payload, or before an end marker) decodes to the
\* absent result.
C5_TruncatedIsAbsent ==
    Decoding /\ doc.cut > 0
        /\ (\A i \in 1..Len(doc.items) : KeysAreByteStrings(doc.items[i]))
    => res.kind = "None"

RECURSIVE DecValue(_)
DecValue(s) ==
    IF s = <<>> THEN 0 ELSE DecValue(Take(s, Len(s) - 1)) * 10 + (s[Len(s)] - ZERO)

\* the places p of the buffer where "i" digits+ "e" ends, the digits' value
\* fitting the integer type
IntegerEnds(b) ==
    {p \in 3..Len(b) :
        /\ b[1] = NUMBER_START
        /\ b[p] = END
        /\ \A j \in 2..(p - 1) : IsDigit(b[j])
        /\ DecValue(SubSeq(b, 2, p - 1)) <= USIZE_MAX}

\* C6: parse_integer accepts exactly "i", one or more decimal digits whose
\* value fits, "e"; it yields that value and fails on everything else (no
\* digits, a sign, a letter, a value too large).
C6_IntegerIsDigitsOnly ==
    call = "parse_integer" =>
        IF IntegerEnds(buf) = {}
        THEN ~IsOk(res)
        ELSE \A p \in IntegerEnds(buf) :
                /\ IsOk(res)
                /\ res.val = DecValue(SubSeq(buf, 2, p - 1))
                /\ res.rest = Drop(buf, p)

\* C7: a buffer holding a dictionary with a key that is no byte string, or
\* no valid UTF-8, decodes to the absent result, wherever the dictionary is.
C7_BadKeyFailsDecode ==
    Decoding /\ doc.cut = 0
        /\ (\E i \in 1..Len(doc.items) : ~KeysAreText(doc.items[i]))
    => res.kind = "None"

GoodKeys(tree) == KeysAreText(tree) /\ KeysAreDistinct(tree)

\* C8: a written list parses to the List of its items in order, a written
\* dictionary to the Dictionary of its pairs, at any nesting, the empty ones
\* included; the parser stops right behind the composite's own end marker;
\* and decode of a whole document yields its items.
C8_CompositesDecode ==
    /\ call = "parse_list" /\ FirstIsWhole
            /\ doc.items[1].t = "List" /\ GoodKeys(doc.items[1]) =>
          /\ IsOk(res)
          /\ res.val = Expected(doc.items[1]).v
          /\ res.rest = AfterFirst
    /\ call = "parse_dictionary" /\ FirstIsWhole
            /\ doc.items[1].t = "Pairs" /\ GoodKeys(doc.items[1]) =>
          /\ IsOk(res)
          /\ res.val = Expected(doc.items[1]).v
          /\ res.rest = AfterFirst
    /\ Decoding /\ doc.cut = 0 /\ doc.tail = <<>>
            /\ (\A i \in 1..Len(doc.items) : GoodKeys(doc.items[i])) =>
          /\ res.kind = "Some"
          /\ res.val = ExpectedAll(doc.items)

\* a dictionary in a dictionary, parsed with bytes behind it
C8_Witness ==
    /\ call = "parse_dictionary"
    /\ doc.items[1] = Pairs(<< <<ByteArray(<<97>>),
                                 Pairs(<< <<ByteArray(<<98>>), Integer(1)>> >>)>> >>)
    /\ AfterFirst # <<>>
    /\ IsOk(res)
    /\ res.val[<<97>>] = Dictionary([k \in {<<98>>} |-> Integer(1)])
    /\ res.rest = AfterFirst

\* C9: parse_dictionary does not fail on a repeated key: the Dictionary
\* holds one entry for each distinct key, with the value of the key's last
\* pair.
C9_RepeatedKeyLastWins ==
    call = "parse_dictionary" /\ FirstIsWhole
        /\ doc.items[1].t = "Pairs" /\ KeysAreText(doc.items[1])
    => /\ IsOk(res)
       /\ DOMAIN res.val = KeysOf(doc.items[1].v)
       /\ Cardinality(DOMAIN res.val) = Cardinality(KeysOf(doc.items[1].v))
       /\ \A k \in KeysOf(doc.items[1].v) :
             res.val[k] = Expected(doc.items[1].v[LastIndex(doc.items[1].v, k)][2])

\* one key written twice with two values: one entry, the second value
C9_Witness ==
    /\ call = "parse_dictionary"
    /\ doc.items = <<Pairs(<< <<ByteArray(<<97>>), Integer(1)>>,
                              <<ByteArray(<<97>>), ByteArray(<<END>>)>> >>)>>
    /\ doc.cut = 0
    /\ IsOk(res)
    /\ DOMAIN res.val = {<<97>>}
    /\ res.val[<<97>>] = ByteArray(<<END>>)

\* C10: for every length L >= 1 the length parser accepts, the number of
\* bytes taken after the digits is L + 1, computed without wraparound and
\* without an overflow abort, the largest L included.
C10_LengthDoesNotWrap ==
    call = "parse_bytearray" =>
        \A L \in 1..U32_MAX :
            LET n == Len(Dec(L))
            IN  /\ Len(buf) >= n
                /\ Take(buf, n) = Dec(L)
                /\ (Len(buf) = n \/ ~IsDigit(buf[n + 1]))
                => taken = L + 1 /\ res.kind # "Panic"

====
